---- MODULE Spec2Model ----
(***************************************************************************)
(* A model of vamodels.py, the Itti-Koch-Niebur saliency pipeline.         *)
(*                                                                         *)
(* Numbers.  A pixel is a float in the source.  Here it is a fixed-point   *)
(* integer counting thousandths (Scale), or one of the three IEEE special  *)
(* values NaN, PInf and NInf, which numpy produces silently on a division  *)
(* by zero and then carries through every later operation.                 *)
(*                                                                         *)
(* Images.  An image is [shape |-> <<rows, cols>>, px |-> row-major        *)
(* sequence of pixels], the numpy array of the source.                     *)
(*                                                                         *)
(* Integer division.  The module is Python 2 code: line 80 hands           *)
(* (shape + 1) / 2 to cv2.resize as a size, which has to be an integer, so *)
(* "/" between integers is the floor division (lines 80, 204, 205).        *)
(***************************************************************************)
EXTENDS Integers, Sequences, FiniteSets, TLC

VARIABLES dog, cons, gp, op, cs, sm

vars == <<dog, cons, gp, op, cs, sm>>

(***************************************************************************)
(* Floating point                                                          *)
(***************************************************************************)
\* One unit of the source's floats is Scale units here (1.0 is 1000).
Scale == 10 ^ 3

PInf == 2 ^ 30
NInf == 0 - PInf
NaN == PInf + 1

IsFinite(a) == a # NaN /\ a # PInf /\ a # NInf

Sign(a) == IF a > 0 THEN 1 ELSE IF a < 0 THEN 0 - 1 ELSE 0

IAbs(a) == IF a < 0 THEN 0 - a ELSE a

\* Integer quotient rounded toward zero (b # 0).
IQuot(a, b) == Sign(a) * Sign(b) * (IAbs(a) \div IAbs(b))

FNeg(a) == IF a = NaN THEN NaN ELSE 0 - a

FAdd(a, b) ==
    IF a = NaN \/ b = NaN THEN NaN
    ELSE IF ~IsFinite(a) THEN (IF b = FNeg(a) THEN NaN ELSE a)
    ELSE IF ~IsFinite(b) THEN b
    ELSE a + b

FSub(a, b) == FAdd(a, FNeg(b))

\* numpy's true division: x/0 is +-inf, 0/0 is nan, and no exception.
FDiv(a, b) ==
    IF a = NaN \/ b = NaN THEN NaN
    ELSE IF ~IsFinite(a) THEN (IF ~IsFinite(b) THEN NaN
                               ELSE IF Sign(a) * (IF b < 0 THEN 0 - 1 ELSE 1) > 0
                                    THEN PInf ELSE NInf)
    ELSE IF ~IsFinite(b) THEN 0
    ELSE IF b = 0 THEN (IF a = 0 THEN NaN ELSE IF a > 0 THEN PInf ELSE NInf)
    ELSE IQuot(a * Scale, b)

\* a > b on floats: false as soon as one side is nan.
FGt(a, b) == a # NaN /\ b # NaN /\ a > b

FAbs(a) == IF a = NaN THEN NaN ELSE IAbs(a)

\* One term p * w of a weighted sum in which some sample is not finite
\* (0 * nan and 0 * inf are nan).
NonFiniteTerm(p, w) ==
    IF IsFinite(p) THEN 0
    ELSE IF w = 0 THEN NaN
    ELSE IF w > 0 THEN p ELSE FNeg(p)

RECURSIVE DotFinite(_, _, _, _)
\* ps[lo] * ws[lo] + ... + ps[hi] * ws[hi] on finite samples
DotFinite(ps, ws, lo, hi) ==
    IF lo > hi THEN 0
    ELSE IF lo = hi THEN ps[lo] * ws[lo]
    ELSE DotFinite(ps, ws, lo, (lo + hi) \div 2)
         + DotFinite(ps, ws, ((lo + hi) \div 2) + 1, hi)

RECURSIVE DotNonFinite(_, _, _, _)
\* the same sum when some sample is nan or inf
DotNonFinite(ps, ws, lo, hi) ==
    IF lo > hi THEN 0
    ELSE IF lo = hi THEN NonFiniteTerm(ps[lo], ws[lo])
    ELSE FAdd(DotNonFinite(ps, ws, lo, (lo + hi) \div 2),
              DotNonFinite(ps, ws, ((lo + hi) \div 2) + 1, hi))

\* The weighted sum of the samples ps with the weights ws / unit, as the
\* filters and the interpolation compute it.
Dot(ps, ws, unit) ==
    IF \A n \in 1..Len(ps) : IsFinite(ps[n])
    THEN IQuot(DotFinite(ps, ws, 1, Len(ps)), unit)
    ELSE DotNonFinite(ps, ws, 1, Len(ps))

(***************************************************************************)
(* Images                                                                  *)
(***************************************************************************)
Rows(img) == img.shape[1]

Cols(img) == img.shape[2]

Size(shape) == shape[1] * shape[2]

\* The array of the given shape holding the values px (held, not recomputed
\* on every read).
NdArray(shape, px) == [shape |-> shape, px |-> px \o <<>>]

\* img[i, j], 0-based
At(img, i, j) == img.px[i * Cols(img) + j + 1]

\* Elementwise a + b, a - b and |a| of arrays of one shape.
ImAdd(a, b) == NdArray(a.shape, [n \in 1..Len(a.px) |-> FAdd(a.px[n], b.px[n])])

ImSub(a, b) == NdArray(a.shape, [n \in 1..Len(a.px) |-> FSub(a.px[n], b.px[n])])

ImAbs(a) == NdArray(a.shape, [n \in 1..Len(a.px) |-> FAbs(a.px[n])])

\* Array minus scalar, array over scalar.
ImSubScalar(a, c) == NdArray(a.shape, [n \in 1..Len(a.px) |-> FSub(a.px[n], c)])

ImDivScalar(a, c) == NdArray(a.shape, [n \in 1..Len(a.px) |-> FDiv(a.px[n], c)])

\* np.zeros(shape)
Zeros(shape) == NdArray(shape, [n \in 1..Size(shape) |-> 0])

\* Whether numpy can subtract arrays of these shapes (broadcasting).
Broadcastable(s, t) ==
    /\ s[1] = t[1] \/ s[1] = 1 \/ t[1] = 1
    /\ s[2] = t[2] \/ s[2] = 1 \/ t[2] = 1

\* a - b with broadcasting of the sides of length 1
BroadcastSub(a, b) ==
    LET R == IF Rows(a) = 1 THEN Rows(b) ELSE Rows(a)
        C == IF Cols(a) = 1 THEN Cols(b) ELSE Cols(a)
    IN  NdArray(<<R, C>>,
         [n \in 1..(R * C) |->
             FSub(At(a, ((n - 1) \div C) % Rows(a), ((n - 1) % C) % Cols(a)),
                  At(b, ((n - 1) \div C) % Rows(b), ((n - 1) % C) % Cols(b)))])

\* ndarray.max(): nan as soon as one entry is nan.
ImMax(img) ==
    IF \E n \in 1..Len(img.px) : img.px[n] = NaN THEN NaN
    ELSE CHOOSE m \in {img.px[n] : n \in 1..Len(img.px)} :
             \A n \in 1..Len(img.px) : img.px[n] <= m

\* scipy.signal.convolve2d(im, h, mode='same', boundary='wrap').  A kernel is
\* [shape, px, unit]: its entries are px / unit.  The boundary is periodic.
convolve2d(im, h) ==
    LET R == Rows(im)
        C == Cols(im)
        Kr == Rows(h)
        Kc == Cols(h)
        taps(i, j) ==
            [t \in 1..(Kr * Kc) |->
                At(im, (i + ((Kr - 1) \div 2) - ((t - 1) \div Kc)) % R,
                       (j + ((Kc - 1) \div 2) - ((t - 1) % Kc)) % C)] \o <<>>
    IN  NdArray(im.shape,
         [n \in 1..(R * C) |-> Dot(taps((n - 1) \div C, (n - 1) % C), h.px, h.unit)])

\* The source position cv2.resize reads for destination index d when n
\* samples become dn (INTER_LINEAR): the two neighbours i0, i1 and the weight
\* w / den of the second, clamped at both ends.
LinearTap(d, n, dn) ==
    LET den == 2 * dn
        num == (2 * d + 1) * n - dn
        fl == num \div den
    IN  IF fl < 0 THEN [i0 |-> 0, i1 |-> 0, w |-> 0, den |-> den]
        ELSE IF fl >= n - 1 THEN [i0 |-> n - 1, i1 |-> n - 1, w |-> 0, den |-> den]
        ELSE [i0 |-> fl, i1 |-> fl + 1, w |-> num - fl * den, den |-> den]

\* cv2.resize(src, dsize = <<width, height>>, interpolation = 1): bilinear;
\* the result has shape <<height, width>>.
cv2_resize(src, dsize) ==
    LET dR == dsize[2]
        dC == dsize[1]
        pixel(y, x) ==
            LET ty == LinearTap(y, Rows(src), dR)
                tx == LinearTap(x, Cols(src), dC)
                a == At(src, ty.i0, tx.i0)
                b == At(src, ty.i0, tx.i1)
                c == At(src, ty.i1, tx.i0)
                d == At(src, ty.i1, tx.i1)
                wa == (ty.den - ty.w) * (tx.den - tx.w)
                wb == (ty.den - ty.w) * tx.w
                wc == ty.w * (tx.den - tx.w)
                wd == ty.w * tx.w
            IN  Dot(<<a, b, c, d>>, <<wa, wb, wc, wd>>, ty.den * tx.den)
    IN  NdArray(<<dR, dC>>,
         [n \in 1..(dR * dC) |-> pixel((n - 1) \div dC, (n - 1) % dC)])

(***************************************************************************)
(* Filters of the pyramids                                                 *)
(***************************************************************************)
\* The index a filter reads beyond an edge with cv2.BORDER_REFLECT_101.
Reflect101(i, n) ==
    IF n = 1 THEN 0
    ELSE LET m == i % (2 * (n - 1))
         IN  IF m <= n - 1 THEN m ELSE 2 * (n - 1) - m

\* The row 1 4 6 4 1 of the binomial filter.
Binomial5 == <<1, 4, 6, 4, 1>>

\* The 5 x 5 weights [a, b] -> Binomial5[a] * Binomial5[b], row-major.
Binomial25 == [t \in 1..25 |-> Binomial5[((t - 1) \div 5) + 1] * Binomial5[((t - 1) % 5) + 1]] \o <<>>

\* A pyrDown that halves without the + 1: n / 2, rounded down.
PyrDownSizeTruncated(n) == n \div 2

\* One side of the image cv2.pyrDown returns: (n + 1) / 2, rounded down.
PyrDownSize(n) == (n + 1) \div 2

\* cv2.pyrDown(src): the binomial blur, then every second row and column.
cv2_pyrDown(src) ==
    LET dR == PyrDownSize(Rows(src))
        dC == PyrDownSize(Cols(src))
        taps(y, x) ==
            [t \in 1..25 |->
                At(src, Reflect101(2 * y + ((t - 1) \div 5) - 2, Rows(src)),
                        Reflect101(2 * x + ((t - 1) % 5) - 2, Cols(src)))] \o <<>>
    IN  NdArray(<<dR, dC>>,
         [n \in 1..(dR * dC) |-> Dot(taps((n - 1) \div dC, (n - 1) % dC), Binomial25, 256)])

\* lines 70-71: hGauss, the same weights over their sum
hGauss == [shape |-> <<5, 5>>, px |-> Binomial25, unit |-> 256]

\* line 75: cv2.getGaborKernel((13, 13), sigma = 1, theta, lambd = 10,
\* gamma = 0.5, psi = pi / 2) for the four angles smikn asks for, in
\* thousandths.  exp and cos have no TLA+ counterpart, so the values are
\* tabulated from OpenCV's formula.
hGabor(degrees) ==
    [shape |-> <<13, 13>>, unit |-> Scale,
     px |-> CASE
               degrees = 0 ->
              <<
                 0, 0, 0, 0, -1, -4, 0, 4, 1, 0, 0, 0, 0,
                 0, 0, 0, 0, -6, -16, 0, 16, 6, 0, 0, 0, 0,
                 0, 0, 0, -1, -17, -48, 0, 48, 17, 1, 0, 0, 0,
                 0, 0, 0, -3, -42, -116, 0, 116, 42, 3, 0, 0, 0,
                 0, 0, 0, -6, -78, -216, 0, 216, 78, 6, 0, 0, 0,
                 0, 0, 0, -9, -114, -315, 0, 315, 114, 9, 0, 0, 0,
                 0, 0, 0, -11, -129, -357, 0, 357, 129, 11, 0, 0, 0,
                 0, 0, 0, -9, -114, -315, 0, 315, 114, 9, 0, 0, 0,
                 0, 0, 0, -6, -78, -216, 0, 216, 78, 6, 0, 0, 0,
                 0, 0, 0, -3, -42, -116, 0, 116, 42, 3, 0, 0, 0,
                 0, 0, 0, -1, -17, -48, 0, 48, 17, 1, 0, 0, 0,
                 0, 0, 0, 0, -6, -16, 0, 16, 6, 0, 0, 0, 0,
                 0, 0, 0, 0, -1, -4, 0, 4, 1, 0, 0, 0, 0 >>
            [] degrees = 45 ->
              <<
                 0, 0, 0, 0, 0, 0, 0, 0, 0, -1, -1, 0, 0,
                 0, 0, 0, 0, 0, 0, 0, -2, -5, -5, -2, 0, 0,
                 0, 0, 0, 0, 0, -1, -7, -21, -30, -16, 0, 2, 1,
                 0, 0, 0, 0, -1, -14, -58, -105, -70, 0, 16, 5, 1,
                 0, 0, 0, -1, -18, -96, -222, -191, 0, 70, 30, 5, 0,
                 0, 0, -1, -14, -96, -286, -314, 0, 191, 105, 21, 2, 0,
                 0, 0, -7, -58, -222, -314, 0, 314, 222, 58, 7, 0, 0,
                 0, -2, -21, -105, -191, 0, 314, 286, 96, 14, 1, 0, 0,
                 0, -5, -30, -70, 0, 191, 222, 96, 18, 1, 0, 0, 0,
                 -1, -5, -16, 0, 70, 105, 58, 14, 1, 0, 0, 0, 0,
                 -1, -2, 0, 16, 30, 21, 7, 1, 0, 0, 0, 0, 0,
                 0, 0, 2, 5, 5, 2, 0, 0, 0, 0, 0, 0, 0,
                 0, 0, 1, 1, 0, 0, 0, 0, 0, 0, 0, 0, 0 >>
            [] degrees = 90 ->
              <<
                 0, 0, 0, 0, 0, 0, 0, 0, 0, 0, 0, 0, 0,
                 0, 0, 0, 0, 0, 0, 0, 0, 0, 0, 0, 0, 0,
                 0, 0, 0, 0, 0, 0, 0, 0, 0, 0, 0, 0, 0,
                 0, 0, -1, -3, -6, -9, -11, -9, -6, -3, -1, 0, 0,
                 -1, -6, -17, -42, -78, -114, -129, -114, -78, -42, -17, -6, -1,
                 -4, -16, -48, -116, -216, -315, -357, -315, -216, -116, -48, -16, -4,
                 0, 0, 0, 0, 0, 0, 0, 0, 0, 0, 0, 0, 0,
                 4, 16, 48, 116, 216, 315, 357, 315, 216, 116, 48, 16, 4,
                 1, 6, 17, 42, 78, 114, 129, 114, 78, 42, 17, 6, 1,
                 0, 0, 1, 3, 6, 9, 11, 9, 6, 3, 1, 0, 0,
                 0, 0, 0, 0, 0, 0, 0, 0, 0, 0, 0, 0, 0,
                 0, 0, 0, 0, 0, 0, 0, 0, 0, 0, 0, 0, 0,
                 0, 0, 0, 0, 0, 0, 0, 0, 0, 0, 0, 0, 0 >>
            [] degrees = 135 ->
              <<
                 0, 0, -1, -1, 0, 0, 0, 0, 0, 0, 0, 0, 0,
                 0, 0, -2, -5, -5, -2, 0, 0, 0, 0, 0, 0, 0,
                 1, 2, 0, -16, -30, -21, -7, -1, 0, 0, 0, 0, 0,
                 1, 5, 16, 0, -70, -105, -58, -14, -1, 0, 0, 0, 0,
                 0, 5, 30, 70, 0, -191, -222, -96, -18, -1, 0, 0, 0,
                 0, 2, 21, 105, 191, 0, -314, -286, -96, -14, -1, 0, 0,
                 0, 0, 7, 58, 222, 314, 0, -314, -222, -58, -7, 0, 0,
                 0, 0, 1, 14, 96, 286, 314, 0, -191, -105, -21, -2, 0,
                 0, 0, 0, 1, 18, 96, 222, 191, 0, -70, -30, -5, 0,
                 0, 0, 0, 0, 1, 14, 58, 105, 70, 0, -16, -5, -1,
                 0, 0, 0, 0, 0, 1, 7, 21, 30, 16, 0, -2, -1,
                 0, 0, 0, 0, 0, 0, 0, 2, 5, 5, 2, 0, 0,
                 0, 0, 0, 0, 0, 0, 0, 0, 0, 1, 1, 0, 0 >>]

(***************************************************************************)
(* gaussian_pyramid (lines 101-131)                                        *)
(***************************************************************************)
RECURSIVE image_gaussian_pyramid(_, _)
\* lines 116-122
image_gaussian_pyramid(iimg, n) ==
    IF n <= 0 THEN <<>>
    ELSE LET tmp == cv2_pyrDown(iimg)
         IN  <<tmp>> \o image_gaussian_pyramid(tmp, n - 1)

(***************************************************************************)
(* orientation_pyramid (lines 33-98)                                       *)
(***************************************************************************)
\* Line 80 rounding (shape + 1) / 2 up instead of down.
OpTargetSizeRoundedUp(shape) == <<(shape[1] + 2) \div 2, (shape[2] + 2) \div 2>>

\* line 80: tgtSize = ((shape[0] + 1) / 2, (shape[1] + 1) / 2)
OpTargetSize(shape) == <<(shape[1] + 1) \div 2, (shape[2] + 1) \div 2>>

\* lines 78-82, one pass: the blurred image and its resized copy
OpBlurDown(imTemp) ==
    LET imTemp2 == convolve2d(imTemp, hGauss)
        tgtSize == OpTargetSize(imTemp2.shape)
    IN  [imf |-> imTemp2, imd |-> cv2_resize(imTemp2, <<tgtSize[2], tgtSize[1]>>)]

\* Line 85 subtracting imf[i], the blur of the same pass, from imd[i].
OpResidualLevelSamePass(i) == i

\* line 85: the level of imf that is taken from the level i of imd
OpResidualLevel(i) == i + 1

\* lines 85-86: the oriented band of level i (0-based)
OpBand(imd, imf, i, degrees) ==
    convolve2d(BroadcastSub(imd[i + 1], imf[OpResidualLevel(i) + 1]), hGabor(degrees))

RECURSIVE OpBlurLoop(_, _)
\* lines 77-82: the pairs <<imf[k], imd[k]>> of the k passes that follow
OpBlurLoop(imTemp, k) ==
    IF k = 0 THEN <<>>
    ELSE LET pass == OpBlurDown(imTemp)
         IN  <<pass>> \o OpBlurLoop(pass.imd, k - 1)

\* The whole call, as smikn uses it (the shapes of line 85 agree there).
orientation_pyramid(im, degrees, L) ==
    LET pairs == OpBlurLoop(im, L + 1)
        imf == [k \in 1..(L + 1) |-> pairs[k].imf]
        imd == [k \in 1..(L + 1) |-> pairs[k].imd]
    IN  [i \in 1..L |-> OpBand(imd, imf, i - 1, degrees)] \o <<>>

(***************************************************************************)
(* centre_surround_feature_map, centre_surround_colour_feature_map         *)
(* (lines 134-179)                                                         *)
(***************************************************************************)
\* Whether list[k] is an item of a Python list: k from -len to len - 1.
PyIndexOk(list, k) == 0 - Len(list) <= k /\ k < Len(list)

\* list[k]: a negative k counts from the end.
PyItem(list, k) == IF k >= 0 THEN list[k + 1] ELSE list[Len(list) + k + 1]

\* Line 153 without its np.abs: the signed difference.
CsFeatureSigned(pyrmd, i, j) ==
    LET centre == PyItem(pyrmd, i - 1)
        temp == cv2_resize(PyItem(pyrmd, j + i - 1), <<centre.shape[2], centre.shape[1]>>)
    IN  ImSub(centre, temp)

\* lines 153-154: the map of the centre i and the shift j
CsFeature(pyrmd, i, j) ==
    LET centre == PyItem(pyrmd, i - 1)
        temp == cv2_resize(PyItem(pyrmd, j + i - 1), <<centre.shape[2], centre.shape[1]>>)
    IN  ImAbs(ImSub(centre, temp))

\* lines 153: the subscripts pyrmd[j+i-1] and pyrmd[i-1] raise no IndexError
CsIndexOk(pyrmd, i, j) == PyIndexOk(pyrmd, j + i - 1) /\ PyIndexOk(pyrmd, i - 1)

\* lines 176-178
CscFeature(Ap, Bp, i, j) ==
    LET temp1 == cv2_resize(PyItem(Ap, j + i - 1),
                            <<PyItem(Ap, i - 1).shape[2], PyItem(Ap, i - 1).shape[1]>>)
        temp2 == cv2_resize(PyItem(Bp, j + i - 1),
                            <<PyItem(Bp, i - 1).shape[2], PyItem(Bp, i - 1).shape[1]>>)
    IN  ImAbs(ImSub(BroadcastSub(PyItem(Ap, i - 1), PyItem(Bp, i - 1)),
                    BroadcastSub(temp2, temp1)))

\* lines 176-178: no subscript raises IndexError
CscIndexOk(Ap, Bp, i, j) == CsIndexOk(Ap, i, j) /\ CsIndexOk(Bp, i, j)

\* line 178: the levels i - 1 of the two pyramids can be subtracted
CscShapesOk(Ap, Bp, i) == Broadcastable(PyItem(Ap, i - 1).shape, PyItem(Bp, i - 1).shape)

\* The centre of the t-th pass (1-based) of the nested loops of lines 151-152
\* and 174-175: centre outer, delta inner.
CsCentreOf(center, delta, t) == center[((t - 1) \div Len(delta)) + 1]

CsDeltaOf(center, delta, t) == delta[((t - 1) % Len(delta)) + 1]

\* The whole calls, as smikn uses them: err when some pass raises IndexError,
\* and the list of maps otherwise.
centre_surround_feature_map(pyrmd, center, delta) ==
    LET N == Len(center) * Len(delta)
    IN  IF \E t \in 1..N : ~CsIndexOk(pyrmd, CsCentreOf(center, delta, t),
                                     CsDeltaOf(center, delta, t))
        THEN [err |-> TRUE, out |-> <<>>]
        ELSE [err |-> FALSE,
              out |-> [t \in 1..N |-> CsFeature(pyrmd, CsCentreOf(center, delta, t),
                                                CsDeltaOf(center, delta, t))] \o <<>>]

centre_surround_colour_feature_map(Ap, Bp, center, delta) ==
    LET N == Len(center) * Len(delta)
    IN  IF \E t \in 1..N :
              \/ ~CscIndexOk(Ap, Bp, CsCentreOf(center, delta, t), CsDeltaOf(center, delta, t))
              \/ ~CscShapesOk(Ap, Bp, CsCentreOf(center, delta, t))
        THEN [err |-> TRUE, out |-> <<>>]
        ELSE [err |-> FALSE,
              out |-> [t \in 1..N |-> CscFeature(Ap, Bp, CsCentreOf(center, delta, t),
                                                 CsDeltaOf(center, delta, t))] \o <<>>]

(***************************************************************************)
(* difference_of_gaussians_filtering_and_update (lines 182-234)            *)
(***************************************************************************)
\* The default inhibitory constant cte = 0.02.
CteDefault == 20

\* h of line 218 for the default co, ci, sigmao, sigmai, in thousandths, for
\* an input of shape <<Lx, Ly>>.  np.meshgrid(xv, yv) gives h the shape
\* <<Ly, Lx>>; the centres cx, cy are the floor of (L - 1) / 2.  exp has no
\* TLA+ counterpart, so the values are tabulated from the formula.
DoGKernel(shape) ==
    [shape |-> <<shape[2], shape[1]>>, unit |-> Scale,
     px |-> CASE shape = <<1, 1>> -> <<93742>>
            [] shape = <<1, 2>> -> <<23436, -194>>
            [] shape = <<1, 3>> -> <<-262, 10416, -262>>
            [] shape = <<1, 4>> -> <<-217, 5859, -217, -48>>
            [] shape = <<2, 1>> -> <<93742, -2>>
            [] shape = <<2, 2>> -> <<23436, -194, -194, -26>>
            [] shape = <<2, 3>> -> <<-262, -108, 10416, -262, -262, -108>>
            [] shape = <<2, 4>> -> <<-217, -132, 5859, -217, -217, -132, -48, -29>>
            [] shape = <<3, 1>> -> <<-2, 93742, -2>>
            [] shape = <<3, 2>> -> <<-194, 23436, -194, -26, -194, -26>>
            [] shape = <<3, 3>> -> <<-108, -262, -108, -262, 10416, -262, -108, -262, -108>>
            [] shape = <<3, 4>> -> <<-132, -217, -132, -217, 5859, -217, -132, -217, -132, -29,
                                -48, -29>>
            [] shape = <<4, 1>> -> <<-2, 93742, -2, 0>>
            [] shape = <<4, 2>> -> <<-194, 23436, -194, 0, -26, -194, -26, 0>>
            [] shape = <<4, 3>> -> <<-108, -262, -108, -7, -262, 10416, -262, -18, -108, -262,
                                -108, -7>>
            [] shape = <<4, 4>> -> <<-132, -217, -132, -29, -217, 5859, -217, -48, -132, -217,
                                -132, -29, -29, -48, -29, -7>>]

\* line 220: filtim = im / im.max()
DivideByMax(im) == ImDivScalar(im, ImMax(im))

\* The loop of line 222 running once more than asked: range(loop + 1).
DogLoopGuardInclusive(i, loop) == i <= loop

\* line 222: for i in range(loop)
DogLoopGuard(i, loop) == i < loop

\* lines 223-224: map1 = convolve2d(filtim, h); filtim = filtim + map1 - cte
DogUpdate(filtim, cte) ==
    LET map1 == convolve2d(filtim, DoGKernel(filtim.shape))
    IN  ImSubScalar(ImAdd(filtim, map1), cte)

\* lines 226-227: mask = filtim > 0; mask.max() == 0
DogDegenerate(filtim) == \A n \in 1..Len(filtim.px) : ~FGt(filtim.px[n], 0)

\* line 231: filtim = mask * filtim  (False * nan is nan)
DogMask(filtim) ==
    NdArray(filtim.shape,
     [n \in 1..Len(filtim.px) |->
                IF FGt(filtim.px[n], 0) THEN filtim.px[n]
                ELSE IF IsFinite(filtim.px[n]) THEN 0 ELSE NaN])

\* lines 223-232, one iteration: the map it leaves in filtim, and whether it
\* took the break of line 229.  The break is preceded by "filtmin = 0", an
\* assignment to a name nothing reads: filtim keeps the unmasked update.
DogIteration(filtim, cte) ==
    LET upd == DogUpdate(filtim, cte)
    IN  IF DogDegenerate(upd)
        THEN [filtim |-> upd, brk |-> TRUE]
        ELSE [filtim |-> DivideByMax(DogMask(upd)), brk |-> FALSE]

RECURSIVE DogLoop(_, _, _, _)
\* lines 222-232 from iteration i on
DogLoop(filtim, cte, i, loop) ==
    IF ~DogLoopGuard(i, loop) THEN filtim
    ELSE LET it == DogIteration(filtim, cte)
         IN  IF it.brk THEN it.filtim ELSE DogLoop(it.filtim, cte, i + 1, loop)

\* The whole call, as conspicuity_map uses it.
difference_of_gaussians_filtering_and_update(im, cte, loop) ==
    DogLoop(DivideByMax(im), cte, 0, loop)


(***************************************************************************)
(* conspicuity_map (lines 240-259)                                         *)
(***************************************************************************)
\* line 249: sizet = C[len(C)-1].shape
ConsTargetShape(C) == C[Len(C)].shape

\* lines 251-254: the map C[i] brought to the target size
ConsTemp(Ci, sizet) ==
    IF Ci.shape # sizet THEN cv2_resize(Ci, <<sizet[2], sizet[1]>>) ELSE Ci

\* line 257: out += difference_of_gaussians_filtering_and_update(temp, loop = loops)
ConsAccumulate(out, Ci, sizet, loops) ==
    ImAdd(out, difference_of_gaussians_filtering_and_update(
                   ConsTemp(Ci, sizet), CteDefault, loops))

RECURSIVE ConsSum(_, _, _)
\* lines 248-257: out after the first n maps of C have been added
ConsSum(C, loops, n) ==
    IF n = 0 THEN Zeros(ConsTargetShape(C))
    ELSE ConsAccumulate(ConsSum(C, loops, n - 1), C[n], ConsTargetShape(C), loops)

\* line 258: out = difference_of_gaussians_filtering_and_update(out, loop = loops)
ConsFinal(out, loops) == difference_of_gaussians_filtering_and_update(out, CteDefault, loops)

\* The whole call, as smikn uses it.
conspicuity_map(C, loops) == ConsFinal(ConsSum(C, loops, Len(C)), loops)

(***************************************************************************)
(* The call frames.  A frame at pc "idle" belongs to a function that the   *)
(* specification at hand does not run.                                     *)
(***************************************************************************)
Idle == [pc |-> "idle"]

\* Largest loop count tried.
MaxLoop == 2

\* Pixel values of the input maps: 0.0, 0.5 and 1.0.
Pixels == {0, Scale \div 2, Scale}

ImagesOf(shape) == {[shape |-> shape, px |-> p] : p \in [1..Size(shape) -> Pixels]}

\* Input maps of the operator: feature maps are absolute values, so >= 0.
DogInputs == ImagesOf(<<1, 1>>) \cup ImagesOf(<<1, 2>>) \cup ImagesOf(<<2, 2>>)

\* cte is a parameter of the call: its default 0.02, and 100.0, an inhibition
\* strong enough to push every entry of a small map below zero, as the
\* default does on a uniform map of realistic size.
DogCtes == {CteDefault, 100 * Scale}

DogInit ==
    /\ dog \in {[pc |-> "start", im |-> im, cte |-> c, loop |-> l, filtim |-> im,
                 i |-> 0, nconv |-> 0, brk |-> FALSE] :
                    im \in DogInputs, c \in DogCtes, l \in 0..MaxLoop}
    /\ cons = Idle /\ gp = Idle /\ op = Idle /\ cs = Idle /\ sm = Idle

\* line 220
DogNormalise ==
    /\ dog.pc = "start"
    /\ dog' = [dog EXCEPT !.pc = "loop", !.filtim = DivideByMax(dog.im)]
    /\ UNCHANGED <<cons, gp, op, cs, sm>>

\* lines 222-232: one pass through the loop body
DogIterate ==
    /\ dog.pc = "loop"
    /\ DogLoopGuard(dog.i, dog.loop)
    /\ LET it == DogIteration(dog.filtim, dog.cte)
       IN  dog' = [dog EXCEPT !.filtim = it.filtim, !.brk = it.brk,
                              !.nconv = dog.nconv + 1,
                              !.i = IF it.brk THEN dog.i ELSE dog.i + 1,
                              !.pc = IF it.brk THEN "done" ELSE "loop"]
    /\ UNCHANGED <<cons, gp, op, cs, sm>>

\* line 234, reached when range(loop) is exhausted
DogReturn ==
    /\ dog.pc = "loop"
    /\ ~DogLoopGuard(dog.i, dog.loop)
    /\ dog' = [dog EXCEPT !.pc = "done"]
    /\ UNCHANGED <<cons, gp, op, cs, sm>>

DogNext == DogNormalise \/ DogIterate \/ DogReturn

SpecDog == DogInit /\ [][DogNext]_vars

(***************************************************************************)
(* conspicuity_map run on its own                                          *)
(***************************************************************************)
\* Longest list of feature maps handed to conspicuity_map on its own.
MaxMaps == 2

BinaryImagesOf(shape) ==
    {[shape |-> shape, px |-> p] : p \in [1..Size(shape) -> {0, Scale}]}

\* Feature maps: non-negative (line 154 takes absolute values), of the shapes
\* pyramid levels have.
FeatureMaps ==
    ImagesOf(<<1, 1>>) \cup BinaryImagesOf(<<1, 2>>) \cup BinaryImagesOf(<<2, 2>>)

SeqsUpTo(S, n) == UNION {[1..k -> S] : k \in 1..n}

ConsInit ==
    /\ cons \in {[pc |-> "start", C |-> C, loops |-> l, out |-> Zeros(<<1, 1>>),
                  sizet |-> <<1, 1>>, i |-> 0] :
                     C \in SeqsUpTo(FeatureMaps, MaxMaps), l \in 0..MaxLoop}
    /\ dog = Idle /\ gp = Idle /\ op = Idle /\ cs = Idle /\ sm = Idle

\* lines 248-249
ConsBegin ==
    /\ cons.pc = "start"
    /\ cons' = [cons EXCEPT !.pc = "loop", !.sizet = ConsTargetShape(cons.C),
                            !.out = Zeros(ConsTargetShape(cons.C))]
    /\ UNCHANGED <<dog, gp, op, cs, sm>>

\* lines 250-257: one pass through the loop body
ConsAdd ==
    /\ cons.pc = "loop"
    /\ cons.i < Len(cons.C)
    /\ cons' = [cons EXCEPT !.i = cons.i + 1,
                            !.out = ConsAccumulate(cons.out, cons.C[cons.i + 1],
                                                   cons.sizet, cons.loops)]
    /\ UNCHANGED <<dog, gp, op, cs, sm>>

\* lines 258-259
ConsFinish ==
    /\ cons.pc = "loop"
    /\ cons.i = Len(cons.C)
    /\ cons' = [cons EXCEPT !.pc = "done", !.out = ConsFinal(cons.out, cons.loops)]
    /\ UNCHANGED <<dog, gp, op, cs, sm>>

ConsNext == ConsBegin \/ ConsAdd \/ ConsFinish

SpecCons == ConsInit /\ [][ConsNext]_vars

(***************************************************************************)
(* gaussian_pyramid and orientation_pyramid run on their own               *)
(***************************************************************************)
\* Deepest pyramid asked for.
MaxLevels == 3

\* Longest list of images handed to gaussian_pyramid.
MaxList == 2

NoImage == [shape |-> <<0, 0>>, px |-> <<>>]

\* A test image of the given shape: the values 0, 0.25, ..., 1 in turn.
Ramp(shape) == NdArray(shape, [n \in 1..Size(shape) |-> ((n - 1) % 5) * (Scale \div 4)])

PyrShapes == {<<1, 1>>, <<2, 3>>, <<4, 4>>, <<5, 3>>, <<6, 5>>}

PyrImages == {Ramp(shape) : shape \in PyrShapes}

\* The argument is one image, or a list of images (line 124).
GpArguments ==
    {[list |-> FALSE, items |-> <<im>>] : im \in PyrImages}
    \cup {[list |-> TRUE, items |-> l] :
             l \in UNION {[1..k -> PyrImages] : k \in 0..MaxList}}

GpInit ==
    /\ gp \in {[pc |-> "start", arg |-> a, n |-> n, j |-> 0, i |-> 0,
                iimg |-> NoImage, imp |-> <<>>, out |-> <<>>] :
                   a \in GpArguments, n \in 0..MaxLevels}
    /\ op = Idle

OpInit ==
    /\ op \in {[pc |-> "blur", im |-> im, degrees |-> d, L |-> L, imTemp |-> im,
                imf |-> <<>>, imd |-> <<>>, out |-> <<>>, i |-> 0] :
                   im \in PyrImages, d \in {0, 45, 90, 135}, L \in 0..MaxLevels}
    /\ gp = Idle

PyrInit ==
    /\ GpInit \/ OpInit
    /\ dog = Idle /\ cons = Idle /\ cs = Idle /\ sm = Idle

\* lines 124-129: enter image_gaussian_pyramid for the first image, if any
GpEnter ==
    /\ gp.pc = "start"
    /\ gp' = IF Len(gp.arg.items) = 0
             THEN [gp EXCEPT !.pc = "done"]
             ELSE [gp EXCEPT !.pc = "down", !.iimg = gp.arg.items[1]]
    /\ UNCHANGED <<dog, cons, op, cs, sm>>

\* lines 118-121: one pass of the loop of image_gaussian_pyramid
GpPyrDown ==
    /\ gp.pc = "down"
    /\ gp.i < gp.n
    /\ LET tmp == cv2_pyrDown(gp.iimg)
       IN  gp' = [gp EXCEPT !.iimg = tmp, !.imp = Append(gp.imp, tmp), !.i = gp.i + 1]
    /\ UNCHANGED <<dog, cons, op, cs, sm>>

\* line 122, then line 127 (append, next image of the list) or line 129
GpCollect ==
    /\ gp.pc = "down"
    /\ gp.i >= gp.n
    /\ gp' = IF ~gp.arg.list
             THEN [gp EXCEPT !.pc = "done", !.out = gp.imp]
             ELSE IF gp.j + 1 < Len(gp.arg.items)
             THEN [gp EXCEPT !.out = Append(gp.out, gp.imp), !.j = gp.j + 1,
                             !.iimg = gp.arg.items[gp.j + 2], !.imp = <<>>, !.i = 0]
             ELSE [gp EXCEPT !.pc = "done", !.out = Append(gp.out, gp.imp),
                             !.j = gp.j + 1]
    /\ UNCHANGED <<dog, cons, op, cs, sm>>

\* lines 77-82: one pass of the first loop
OpBlur ==
    /\ op.pc = "blur"
    /\ op.i < op.L + 1
    /\ LET pass == OpBlurDown(op.imTemp)
       IN  op' = [op EXCEPT !.imf = Append(op.imf, pass.imf),
                            !.imd = Append(op.imd, pass.imd),
                            !.imTemp = pass.imd, !.i = op.i + 1]
    /\ UNCHANGED <<dog, cons, gp, cs, sm>>

\* line 84: the first loop is over, the second starts
OpStartBands ==
    /\ op.pc = "blur"
    /\ op.i >= op.L + 1
    /\ op' = [op EXCEPT !.pc = "band", !.i = 0]
    /\ UNCHANGED <<dog, cons, gp, cs, sm>>

\* lines 85-96: one pass of the second loop; numpy raises ValueError when the
\* two operands of line 85 cannot be subtracted
OpBandStep ==
    /\ op.pc = "band"
    /\ op.i < op.L
    /\ op' = IF OpResidualLevel(op.i) + 1 \notin 1..Len(op.imf)
             THEN [op EXCEPT !.pc = "IndexError"]
             ELSE IF ~Broadcastable(op.imd[op.i + 1].shape,
                                    op.imf[OpResidualLevel(op.i) + 1].shape)
             THEN [op EXCEPT !.pc = "ValueError"]
             ELSE [op EXCEPT !.i = op.i + 1,
                             !.out = Append(op.out,
                                            OpBand(op.imd, op.imf, op.i, op.degrees))]
    /\ UNCHANGED <<dog, cons, gp, cs, sm>>

\* line 98
OpReturn ==
    /\ op.pc = "band"
    /\ op.i >= op.L
    /\ op' = [op EXCEPT !.pc = "done"]
    /\ UNCHANGED <<dog, cons, gp, cs, sm>>

PyrNext == GpEnter \/ GpPyrDown \/ GpCollect \/ OpBlur \/ OpStartBands \/ OpBandStep \/ OpReturn

SpecPyr == PyrInit /\ [][PyrNext]_vars

(***************************************************************************)
(* The centre-surround functions run on their own                          *)
(***************************************************************************)
\* Centre levels tried: 0..MaxCentre (0 is no level: levels count from 1).
MaxCentre == 2

\* Level shifts tried: 1..MaxDelta.
MaxDelta == 2

\* Longest centre and delta sequences tried.
MaxParams == 2

\* Pyramids handed to the functions, the deepest deep enough for every pair
\* tried: Gaussian ones and an oriented one, whose values have both signs.
CsPyramids ==
    {image_gaussian_pyramid(Ramp(<<6, 5>>), n) : n \in 1..(MaxCentre + MaxDelta)}
    \cup {image_gaussian_pyramid(Ramp(<<4, 4>>), n) : n \in 1..(MaxCentre + MaxDelta)}
    \cup {orientation_pyramid(Ramp(<<6, 5>>), 45, n) : n \in 1..(MaxCentre + MaxDelta)}

\* Pairs of colour pyramids, not always of one depth.
CsColourPairs ==
    {<<image_gaussian_pyramid(Ramp(<<6, 5>>), n), image_gaussian_pyramid(Ramp(<<5, 6>>), k)>> :
        n \in {MaxLevels}, k \in {MaxLevels - 1, MaxLevels}}

CsInit ==
    /\ cs \in {[pc |-> "loop", colour |-> FALSE, Ap |-> a, Bp |-> a, center |-> c,
                delta |-> d, p |-> 0, q |-> 0, out |-> <<>>, tags |-> <<>>] :
                  a \in CsPyramids, c \in SeqsUpTo(0..MaxCentre, MaxParams),
                  d \in SeqsUpTo(1..MaxDelta, MaxParams)}
          \cup {[pc |-> "loop", colour |-> TRUE, Ap |-> ab[1], Bp |-> ab[2], center |-> c,
                 delta |-> d, p |-> 0, q |-> 0, out |-> <<>>, tags |-> <<>>] :
                  ab \in CsColourPairs, c \in SeqsUpTo(0..MaxCentre, MaxParams),
                  d \in SeqsUpTo(1..MaxDelta, MaxParams)}
    /\ dog = Idle /\ cons = Idle /\ gp = Idle /\ op = Idle /\ sm = Idle

\* The frame after the pass (p, q) appended the map f: the inner loop moves
\* on, and the outer one when the inner is exhausted.  tags records which
\* centre and delta each map was computed for.
CsAppend(f) ==
    [cs EXCEPT !.out = Append(cs.out, f),
               !.tags = Append(cs.tags, <<cs.center[cs.p + 1], cs.delta[cs.q + 1]>>),
               !.q = IF cs.q + 1 < Len(cs.delta) THEN cs.q + 1 ELSE 0,
               !.p = IF cs.q + 1 < Len(cs.delta) THEN cs.p ELSE cs.p + 1]

\* lines 153-154: one pass of centre_surround_feature_map
CsPass ==
    /\ cs.pc = "loop" /\ ~cs.colour
    /\ cs.p < Len(cs.center)
    /\ cs' = IF ~CsIndexOk(cs.Ap, cs.center[cs.p + 1], cs.delta[cs.q + 1])
             THEN [cs EXCEPT !.pc = "IndexError"]
             ELSE CsAppend(CsFeature(cs.Ap, cs.center[cs.p + 1], cs.delta[cs.q + 1]))
    /\ UNCHANGED <<dog, cons, gp, op, sm>>

\* lines 176-178: one pass of centre_surround_colour_feature_map; numpy
\* raises ValueError when the two centre levels cannot be subtracted
CscPass ==
    /\ cs.pc = "loop" /\ cs.colour
    /\ cs.p < Len(cs.center)
    /\ cs' = IF ~CscIndexOk(cs.Ap, cs.Bp, cs.center[cs.p + 1], cs.delta[cs.q + 1])
             THEN [cs EXCEPT !.pc = "IndexError"]
             ELSE IF ~CscShapesOk(cs.Ap, cs.Bp, cs.center[cs.p + 1])
             THEN [cs EXCEPT !.pc = "ValueError"]
             ELSE CsAppend(CscFeature(cs.Ap, cs.Bp, cs.center[cs.p + 1], cs.delta[cs.q + 1]))
    /\ UNCHANGED <<dog, cons, gp, op, sm>>

\* lines 155 and 179
CsReturn ==
    /\ cs.pc = "loop"
    /\ cs.p >= Len(cs.center)
    /\ cs' = [cs EXCEPT !.pc = "done"]
    /\ UNCHANGED <<dog, cons, gp, op, sm>>

CsNext == CsPass \/ CscPass \/ CsReturn

SpecCs == CsInit /\ [][CsNext]_vars

(***************************************************************************)
(* smikn (lines 261-366)                                                   *)
(***************************************************************************)
\* numpy's product of two floats; a boolean mask enters as 1.0 or 0.0.
FMul(a, b) ==
    IF a = NaN \/ b = NaN THEN NaN
    ELSE IF ~IsFinite(a) \/ ~IsFinite(b)
         THEN (IF a = 0 \/ b = 0 THEN NaN
               ELSE IF Sign(a) * Sign(b) > 0 THEN PInf ELSE NInf)
    ELSE IQuot(a * b, Scale)

\* x * Mask for one entry: the entry where the mask is set, x * 0.0 elsewhere
FMask(x, m) == FMul(x, IF m THEN Scale ELSE 0)

\* lines 275-277: img[:, :, k].astype(float)
SmChannel(img, k) == NdArray(img.shape, img.ch[k + 1])

\* line 282: I = (rt + gt + bt) / 3
SmIntensity(img) ==
    ImDivScalar(ImAdd(ImAdd(SmChannel(img, 0), SmChannel(img, 1)), SmChannel(img, 2)),
                3 * Scale)

\* lines 287-291: (ct / (I + preConst)) * Mask with Mask = I > 0.1 * I.max()
\* and preConst = 0.01 * I.max()
SmNormalised(ct, I) ==
    LET thresh == FMul(Scale \div 10, ImMax(I))
        preConst == FMul(Scale \div 100, ImMax(I))
    IN  NdArray(I.shape,
          [n \in 1..Len(I.px) |->
              FMask(FDiv(ct.px[n], FAdd(I.px[n], preConst)), FGt(I.px[n], thresh))])

\* X = X * (X > 0), lines 297-298 and their like
SmRectify(X) == NdArray(X.shape, [n \in 1..Len(X.px) |-> FMask(X.px[n], FGt(X.px[n], 0))])

\* lines 296-306: a - (b + c) / 2, rectified
SmOpponent(a, b, c) ==
    SmRectify(NdArray(a.shape,
        [n \in 1..Len(a.px) |-> FSub(a.px[n], FDiv(FAdd(b.px[n], c.px[n]), 2 * Scale))]))

\* lines 308-310: (r + g) / 2 - |r - g| / 2 - b, rectified
SmYellow(r, g, b) ==
    SmRectify(NdArray(r.shape,
        [n \in 1..Len(r.px) |->
            FSub(FSub(FDiv(FAdd(r.px[n], g.px[n]), 2 * Scale),
                      FDiv(FAbs(FSub(r.px[n], g.px[n])), 2 * Scale)),
                 b.px[n])]))

\* line 272: pyramid_levels = centre[-1] + delta[-1]
SmPyramidLevels(centre, delta) == PyItem(centre, 0 - 1) + PyItem(delta, 0 - 1)

\* The else branch of gaussian_pyramid (line 129), which smikn takes: its
\* arguments are arrays, not lists.
gaussian_pyramid(im, n) == image_gaussian_pyramid(im, n)

\* line 362: (CmI + CmC + CmO) / 3.0
SmAverage(CmI, CmC, CmO) == ImDivScalar(ImAdd(ImAdd(CmI, CmC), CmO), 3 * Scale)

(***************************************************************************)
(* smikn run on RGB images                                                 *)
(***************************************************************************)
\* An RGB image of one colour.
SmUniform(shape, rgb) ==
    [shape |-> shape, ch |-> [k \in 1..3 |-> [n \in 1..Size(shape) |-> rgb[k]] \o <<>>] \o <<>>]

\* A grey image with one red pixel.
SmSpot(shape) ==
    [shape |-> shape,
     ch |-> [k \in 1..3 |->
               [n \in 1..Size(shape) |->
                   IF n = shape[2] + 2 THEN (IF k = 1 THEN Scale ELSE 0)
                   ELSE Scale \div 2] \o <<>>] \o <<>>]

\* An image whose three channels vary differently over the pixels.
SmCard(shape) ==
    [shape |-> shape,
     ch |-> [k \in 1..3 |->
               [n \in 1..Size(shape) |-> ((n * k + (n \div 3) + k) % 3) * (Scale \div 2)]
                   \o <<>>] \o <<>>]

SmShapes == {<<6, 5>>, <<4, 4>>}

SmImages ==
    {SmUniform(s, rgb) : s \in SmShapes,
                         rgb \in {<<0, 0, 0>>, <<Scale \div 2, Scale \div 2, Scale \div 2>>,
                                  <<Scale, 0, 0>>}}
    \cup {SmSpot(s) : s \in SmShapes}
    \cup {SmCard(s) : s \in SmShapes}

\* centre and delta: positive levels, in rising order and not.
SmCentres == {<<1>>, <<2>>, <<1, 2>>, <<2, 1>>}

SmDeltas == {<<1>>, <<2>>, <<1, 2>>}

\* lps
SmLoops == {0, 1}

SmInit ==
    /\ sm \in {[pc |-> "start", img |-> img, lps |-> l, centre |-> c, delta |-> d,
                pyramid_levels |-> 0,
                I |-> NoImage, R |-> NoImage, G |-> NoImage, B |-> NoImage, Y |-> NoImage,
                Ip |-> <<>>, Rp |-> <<>>, Gp |-> <<>>, Bp |-> <<>>, Yp |-> <<>>,
                O0 |-> <<>>, O45 |-> <<>>, O90 |-> <<>>, O135 |-> <<>>,
                Csdi |-> <<>>, Csdc |-> <<>>, Csdor |-> <<>>,
                CmI |-> NoImage, CmC |-> NoImage, CmO |-> NoImage, salMap |-> NoImage] :
                  img \in SmImages, c \in SmCentres, d \in SmDeltas, l \in SmLoops}
    /\ dog = Idle /\ cons = Idle /\ gp = Idle /\ op = Idle /\ cs = Idle

\* lines 272-311: the depth of the pyramids, the intensity and the four
\* colour components
SmOpponency ==
    /\ sm.pc = "start"
    /\ LET I == SmIntensity(sm.img)
           r == SmNormalised(SmChannel(sm.img, 0), I)
           g == SmNormalised(SmChannel(sm.img, 1), I)
           b == SmNormalised(SmChannel(sm.img, 2), I)
       IN  sm' = [sm EXCEPT !.pc = "pyramids",
                            !.pyramid_levels = SmPyramidLevels(sm.centre, sm.delta),
                            !.I = I,
                            !.R = SmOpponent(r, g, b),
                            !.G = SmOpponent(g, r, b),
                            !.B = SmOpponent(b, g, r),
                            !.Y = SmYellow(r, g, b)]
    /\ UNCHANGED <<dog, cons, gp, op, cs>>

\* lines 319-327
SmPyramids ==
    /\ sm.pc = "pyramids"
    /\ sm' = [sm EXCEPT !.pc = "features",
                        !.Ip = gaussian_pyramid(sm.I, sm.pyramid_levels),
                        !.Rp = gaussian_pyramid(sm.R, sm.pyramid_levels),
                        !.Gp = gaussian_pyramid(sm.G, sm.pyramid_levels),
                        !.Bp = gaussian_pyramid(sm.B, sm.pyramid_levels),
                        !.Yp = gaussian_pyramid(sm.Y, sm.pyramid_levels),
                        !.O0 = orientation_pyramid(sm.I, 0, sm.pyramid_levels),
                        !.O45 = orientation_pyramid(sm.I, 45, sm.pyramid_levels),
                        !.O90 = orientation_pyramid(sm.I, 90, sm.pyramid_levels),
                        !.O135 = orientation_pyramid(sm.I, 135, sm.pyramid_levels)]
    /\ UNCHANGED <<dog, cons, gp, op, cs>>

\* lines 334-345: the first subscript out of range ends smikn with IndexError
SmFeatures ==
    /\ sm.pc = "features"
    /\ LET Csdi == centre_surround_feature_map(sm.Ip, sm.centre, sm.delta)
           Csdrg == centre_surround_colour_feature_map(sm.Rp, sm.Gp, sm.centre, sm.delta)
           Csdby == centre_surround_colour_feature_map(sm.Bp, sm.Yp, sm.centre, sm.delta)
           Csdor0 == centre_surround_feature_map(sm.O0, sm.centre, sm.delta)
           Csdor45 == centre_surround_feature_map(sm.O45, sm.centre, sm.delta)
           Csdor90 == centre_surround_feature_map(sm.O90, sm.centre, sm.delta)
           Csdor135 == centre_surround_feature_map(sm.O135, sm.centre, sm.delta)
       IN  sm' = IF \/ Csdi.err \/ Csdrg.err \/ Csdby.err
                    \/ Csdor0.err \/ Csdor45.err \/ Csdor90.err \/ Csdor135.err
                 THEN [sm EXCEPT !.pc = "IndexError"]
                 ELSE [sm EXCEPT !.pc = "conspicuity",
                                 !.Csdi = Csdi.out,
                                 !.Csdc = Csdrg.out \o Csdby.out,
                                 !.Csdor = Csdor0.out \o Csdor45.out \o Csdor90.out
                                               \o Csdor135.out]
    /\ UNCHANGED <<dog, cons, gp, op, cs>>

\* lines 351-357
SmConspicuity ==
    /\ sm.pc = "conspicuity"
    /\ sm' = [sm EXCEPT !.pc = "saliency",
                        !.CmI = conspicuity_map(sm.Csdi, sm.lps),
                        !.CmC = conspicuity_map(sm.Csdc, sm.lps),
                        !.CmO = conspicuity_map(sm.Csdor, sm.lps)]
    /\ UNCHANGED <<dog, cons, gp, op, cs>>

\* lines 362-366: numpy raises ValueError when the three maps cannot be added
SmSaliency ==
    /\ sm.pc = "saliency"
    /\ sm' = IF sm.CmI.shape = sm.CmC.shape /\ sm.CmC.shape = sm.CmO.shape
             THEN [sm EXCEPT !.pc = "done",
                             !.salMap = SmAverage(sm.CmI, sm.CmC, sm.CmO)]
             ELSE [sm EXCEPT !.pc = "ValueError"]
    /\ UNCHANGED <<dog, cons, gp, op, cs>>

SmNext == SmOpponency \/ SmPyramids \/ SmFeatures \/ SmConspicuity \/ SmSaliency

SpecSmikn == SmInit /\ [][SmNext]_vars

\* C1: for every input map and loop count, the returned map holds no negative
\* value, and its maximum is exactly 1 unless the degenerate termination (the
\* break of line 229) fired; on every exit path, the break included.  An
\* input whose maximum is zero counts as degenerate here, so the formula asks
\* no unit maximum of it.
C1_NonNegativeAndUnitMax ==
    dog.pc = "done" =>
        /\ \A n \in 1..Len(dog.filtim.px) : ~FGt(0, dog.filtim.px[n])
        /\ ~dog.brk /\ ImMax(dog.im) # 0 => ImMax(dog.filtim) = Scale

\* C2: a degenerate map (input maximum exactly zero, or no positive entry
\* after an update) ends the iteration without an error and the operator
\* returns an all-zero map.
C2_DegenerateReturnsZeroMap ==
    dog.pc = "done" /\ (ImMax(dog.im) = 0 \/ dog.brk) =>
        \A n \in 1..Len(dog.filtim.px) : dog.filtim.px[n] = 0

\* C9: the operator convolves at most `loop` times; with loop = 0 it does not
\* convolve at all and returns every entry of the input divided by the
\* input's maximum.
C9_AtMostLoopIterations ==
    dog.pc # "idle" =>
        /\ dog.nconv <= dog.loop
        /\ dog.pc = "done" /\ dog.loop = 0 =>
              /\ dog.nconv = 0
              /\ dog.filtim.shape = dog.im.shape
              /\ \A n \in 1..Len(dog.im.px) :
                     dog.filtim.px[n] = FDiv(dog.im.px[n], ImMax(dog.im))

\* A call with loop = 0 has returned a map that the division changed, and a
\* call with loop > 0 is possible too.
C9_Witness ==
    /\ dog.pc = "done" /\ dog.loop = 0
    /\ ImMax(dog.im) = Scale \div 2
    /\ dog.filtim # dog.im

\* The shape the level after one of shape `shape` has: each side (n + 1) / 2,
\* rounded up or rounded down.
NextLevelShape(shape, roundUp) ==
    IF roundUp THEN <<(shape[1] + 2) \div 2, (shape[2] + 2) \div 2>>
    ELSE <<(shape[1] + 1) \div 2, (shape[2] + 1) \div 2>>

\* pyr has exactly n levels and each has the next-level shape of the one
\* before it, the first of the image im.
IsPyramidOf(pyr, im, n, roundUp) ==
    /\ Len(pyr) = n
    /\ \A k \in 1..Len(pyr) :
          pyr[k].shape = NextLevelShape(IF k = 1 THEN im.shape ELSE pyr[k - 1].shape, roundUp)

\* What gaussian_pyramid returned is a pyramid of its argument: of the one
\* image, or one pyramid per image of the list, in the order of the list.
GpResultOk(roundUp) ==
    gp.pc = "done" =>
        IF gp.arg.list
        THEN /\ Len(gp.out) = Len(gp.arg.items)
             /\ \A j \in 1..Len(gp.out) :
                   IsPyramidOf(gp.out[j], gp.arg.items[j], gp.n, roundUp)
        ELSE IsPyramidOf(gp.out, gp.arg.items[1], gp.n, roundUp)

\* C7 as stated: gaussian_pyramid(im, n) returns exactly n levels, finest
\* first, each of shape (ceil((r+1)/2), ceil((c+1)/2)) for the shape (r, c) of
\* the level before it; in list mode one such pyramid per image, in order.
C7_CeilShapes == GpResultOk(TRUE)

\* C7 amended: the same with each side (r+1)/2 rounded down, which is
\* ceil(r/2): the size cv2.pyrDown gives its result.
C7_FloorShapes == GpResultOk(FALSE)

\* A list of two images of different shapes, one with even sides, has been
\* turned into two pyramids of two levels or more.
C7_Witness ==
    /\ gp.pc = "done" /\ gp.arg.list /\ gp.n >= 2
    /\ Len(gp.arg.items) = 2
    /\ gp.arg.items[1].shape = <<4, 4>>
    /\ gp.arg.items[2].shape = <<5, 3>>
    /\ Len(gp.out) = 2

\* C8: orientation_pyramid computes L+1 blurred / downsampled pairs and
\* returns exactly L bands, finest first; the two operands of line 85
\* (imd[i] and imf[i+1]) have one shape and band i has it, so the
\* subtraction never fails.
C8_BandShapes ==
    op.pc # "idle" =>
        /\ op.pc \notin {"ValueError", "IndexError"}
        /\ op.pc \in {"band", "done"} => Len(op.imf) = op.L + 1 /\ Len(op.imd) = op.L + 1
        /\ \A k \in 1..Len(op.out) :
              /\ op.imd[k].shape = op.imf[k + 1].shape
              /\ op.out[k].shape = op.imd[k].shape
        /\ op.pc = "done" =>
              /\ Len(op.out) = op.L
              /\ \A k \in 1..(Len(op.out) - 1) :
                    /\ op.out[k + 1].shape[1] <= op.out[k].shape[1]
                    /\ op.out[k + 1].shape[2] <= op.out[k].shape[2]

\* A pyramid of three bands of three different shapes has been returned.
C8_Witness ==
    /\ op.pc = "done" /\ op.L = 3
    /\ op.out[1].shape = <<3, 3>>
    /\ op.out[2].shape = <<2, 2>>
    /\ op.out[3].shape = <<1, 1>>

\* Every level a pair of the call refers to is a level of the pyramid pyrmd:
\* the indices centre - 1 and centre + delta - 1 lie in 0..len(pyrmd)-1.
LevelsExist(pyrmd, center, delta) ==
    \A a \in 1..Len(center), b \in 1..Len(delta) :
        /\ center[a] - 1 \in 0..(Len(pyrmd) - 1)
        /\ center[a] + delta[b] - 1 \in 0..(Len(pyrmd) - 1)

\* C4: on a pyramid deep enough for every pair, centre_surround_feature_map
\* returns exactly m*k maps; the map at position p*k+q belongs to the p-th
\* centre and the q-th delta, has the shape of the pyramid level centre-1 and
\* no negative entry.
C4_FeatureMapList ==
    ~cs.colour /\ cs.pc # "idle" /\ LevelsExist(cs.Ap, cs.center, cs.delta) =>
        /\ cs.pc # "IndexError"
        /\ cs.pc = "done" =>
              /\ Len(cs.out) = Len(cs.center) * Len(cs.delta)
              /\ \A a \in 0..(Len(cs.center) - 1), b \in 0..(Len(cs.delta) - 1) :
                    LET f == cs.out[a * Len(cs.delta) + b + 1]
                    IN  /\ cs.tags[a * Len(cs.delta) + b + 1]
                              = <<cs.center[a + 1], cs.delta[b + 1]>>
                        /\ f.shape = cs.Ap[cs.center[a + 1]].shape
                        /\ Len(f.px) = Size(f.shape)
                        /\ \A n \in 1..Len(f.px) : ~FGt(0, f.px[n])

\* Two centres and two deltas on a pyramid of four levels gave four maps, a
\* positive entry among them.
C4_Witness ==
    /\ ~cs.colour /\ cs.pc = "done"
    /\ cs.center = <<2, 1>> /\ cs.delta = <<1, 2>>
    /\ Len(cs.Ap) = 4
    /\ Len(cs.out) = 4
    /\ \E n \in 1..Len(cs.out[1].px) : cs.out[1].px[n] > 0

\* C5: whenever some (centre, delta) pair refers to a level that is not a
\* level of the pyramid, either function fails with a bounds error and returns
\* no list: a call that returned had only pairs whose levels exist.
C5_BadLevelRaises ==
    cs.pc = "done" =>
        /\ LevelsExist(cs.Ap, cs.center, cs.delta)
        /\ cs.colour => LevelsExist(cs.Bp, cs.center, cs.delta)

\* Every entry of the map is a number of [0, 1].
InUnitRange(m) ==
    \A n \in 1..Len(m.px) : IsFinite(m.px[n]) /\ 0 <= m.px[n] /\ m.px[n] <= Scale

\* C3: each of the three conspicuity maps that conspicuity_map returns to
\* smikn has all its values in [0, 1], and so has the saliency map that smikn
\* returns, also when a feature map or the summed map takes the degenerate
\* path of the DoG operator.
C3_SaliencyInUnitRange ==
    /\ sm.pc \in {"saliency", "done"} =>
          InUnitRange(sm.CmI) /\ InUnitRange(sm.CmC) /\ InUnitRange(sm.CmO)
    /\ sm.pc = "done" => InUnitRange(sm.salMap)

\* The largest element of a sequence of integers.
SeqMax(s) == CHOOSE m \in {s[k] : k \in 1..Len(s)} : \A k \in 1..Len(s) : s[k] <= m

\* C6: for non-empty centre and delta of positive integers in any order,
\* smikn builds every Gaussian and orientation pyramid to the depth
\* max(centre) + max(delta), and the centre-surround stage raises no bounds
\* error.
C6_DepthIsMaxPlusMax ==
    /\ sm.pc \notin {"idle", "start"} =>
          sm.pyramid_levels = SeqMax(sm.centre) + SeqMax(sm.delta)
    /\ sm.pc \notin {"idle", "start", "pyramids"} =>
          \A p \in {sm.Ip, sm.Rp, sm.Gp, sm.Bp, sm.Yp, sm.O0, sm.O45, sm.O90, sm.O135} :
              Len(p) = SeqMax(sm.centre) + SeqMax(sm.delta)
    /\ sm.pc # "IndexError"

\* C10: in a run of smikn, level i of each orientation pyramid has the shape
\* of level i of the Gaussian pyramid; the three conspicuity maps have one
\* shape, that of the pyramid level centre[-1]-1, which is the shape of the
\* last feature map of each list; so line 362 adds maps of one shape and
\* raises no ValueError.
C10_ConspicuityShapesAgree ==
    /\ sm.pc \notin {"idle", "start", "pyramids"} =>
          \A O \in {sm.O0, sm.O45, sm.O90, sm.O135} :
              /\ Len(O) = Len(sm.Ip)
              /\ \A i \in 1..Len(O) : O[i].shape = sm.Ip[i].shape
    /\ sm.pc \in {"saliency", "done"} =>
          /\ sm.CmI.shape = sm.Ip[PyItem(sm.centre, 0 - 1)].shape
          /\ sm.CmC.shape = sm.CmI.shape
          /\ sm.CmO.shape = sm.CmI.shape
          /\ sm.CmI.shape = sm.Csdi[Len(sm.Csdi)].shape
          /\ sm.CmC.shape = sm.Csdc[Len(sm.Csdc)].shape
          /\ sm.CmO.shape = sm.Csdor[Len(sm.Csdor)].shape
    /\ sm.pc = "done" => sm.salMap.shape = sm.CmI.shape
    /\ sm.pc # "ValueError"

\* smikn returned for a 6x5 image with two centres and two deltas: feature
\* maps of two shapes went into conspicuity maps of the shape 2x2.
C10_Witness ==
    /\ sm.pc = "done"
    /\ sm.img.shape = <<6, 5>>
    /\ sm.centre = <<1, 2>> /\ sm.delta = <<1, 2>>
    /\ sm.Csdor[1].shape = <<3, 3>>
    /\ sm.CmO.shape = <<2, 2>>
    /\ sm.salMap.shape = <<2, 2>>

====
